---- MODULE Spec2Model ----
(***************************************************************************)
(* SmartDataManager of data_persistence.py: the PID lock token, the       *)
(* write-temp-then-rename file writer, record validation and checksums,   *)
(* and the backup archives.                                                *)
(*                                                                         *)
(* Three specifications share the module.  SpecConc interleaves the      *)
(* steps of save_data of several operating-system processes on one data   *)
(* directory (lock token, temporary file, live file, at the granularity   *)
(* of the file-system calls).  Spec and SpecBackup run the operations of  *)
(* one manager to completion, one after the other, on records with their  *)
(* fields: Spec the entity store from a fresh installation, SpecBackup    *)
(* the backup manager on a store that auto_save_data has populated.       *)
(***************************************************************************)
EXTENDS Integers, Sequences, FiniteSets, TLC

(***************************************************************************)
(* Bounds                                                                  *)
(***************************************************************************)
NumProcs == 2
MaxSaves == 1
MaxTries == 2

\* json.dump reaches the file in several write() calls (the buffer is
\* flushed when full and on close); a serialized envelope is NChunks of them
NChunks == 2

\* Spec, SpecBackup: records in one save_data call, clock ticks, and the
\* number of operations of one run
MaxLen == 2
MaxTicks == 2
MaxOps == 3
\* most archives of one type and age class in a backup directory
MaxPerAge == 11
\* SpecRetentionAny: most archives of one type and age class, and the
\* largest keep_count passed
MaxFew == 3
MaxKeepCount == 6

Procs == 1..NumProcs
\* lock_file.exists() is false
NoFile == 0
\* the payload of the envelope that is live before any modelled save
OldPayload == 0
\* a byte range no write() has filled (a write past the truncated end)
Hole == <<0, 0>>

VARIABLES
    \* ---- SpecConc: the data directory shared by the processes
    lock_file,      \* content of data/.lock: NoFile, or the pid written
    alive,          \* the processes os.kill(pid, 0) finds running
    pc,             \* each process's position in save_data
    lock_pid,       \* acquire_lock's local lock_pid
    slept,          \* time.sleep(0.1) calls of the running acquire_lock
    saves,          \* save_data calls started by each process
    valid_input,    \* whether the running save_data's records pass validation
    temp_ino,       \* inode that tasks.json.tmp names (NoFile: no such name)
    live_ino,       \* inode that tasks.json names
    content,        \* content[i]: the chunks of inode i
    fh,             \* each process's open file on the temporary path
    live_at_start,  \* tasks.json as it was when _save_to_file was entered
    died_at,        \* where a killed process was
    result,         \* how the last save_data of each process ended
    last_read,      \* what the last load read from tasks.json
    token_writers,  \* history: who wrote the token since it was last absent
    wrote_live,     \* history: the running save wrote into tasks.json's inode
    \* ---- Spec: one manager, operations run to completion
    auto_backup,    \* self.auto_backup
    files,          \* data/<type>.json of each entity type
    token,          \* data/.lock as this process finds it
    archives,       \* backups/backup_<timestamp>.zip, by timestamp
    backup_thread,  \* self._backup_thread: "none" or "alive"
    clock,          \* datetime.now(), in seconds
    ret,            \* the last operation and what it returned
    reports,        \* st.error / st.warning / st.success of the last operation
    ops             \* operations run so far

conc_vars == <<lock_file, alive, pc, lock_pid, slept, saves, valid_input,
               temp_ino, live_ino, content, fh, live_at_start, died_at,
               result, last_read, token_writers, wrote_live>>

seq_vars == <<auto_backup, files, token, archives, backup_thread, clock, ret,
              reports, ops>>

vars == <<conc_vars, seq_vars>>

\* the chunks json.dump writes for the records of process p
Envelope(p) == [i \in 1..NChunks |-> <<p, i>>]

\* a file json.load parses: the whole envelope of one save
IsCompleteEnvelope(c) == \E p \in Procs \cup {OldPayload} : c = Envelope(p)

LiveContent == content[live_ino]

\* write(2) of chunk c at offset pos of a file whose content is f
WriteAt(f, pos, c) ==
    [i \in 1..(IF pos + 1 > Len(f) THEN pos + 1 ELSE Len(f)) |->
        IF i = pos + 1 THEN c
        ELSE IF i <= Len(f) THEN f[i] ELSE Hole]

\* acquire_lock has returned True and release_lock has not been called
InSave(p) == pc[p] \in {"validate", "open", "write", "replace"}

\* a fresh installation: empty data and backup directories
InitStore ==
    /\ files = [type \in {"tasks", "habits"} |->
                  [kind |-> "absent", checksum |-> <<>>, data |-> <<>>]]
    /\ token = "none"
    /\ archives = {}
    /\ backup_thread = "none"
    /\ clock = 0
    /\ ret = [op |-> "none", type |-> "", ok |-> TRUE, data |-> <<>>, input |-> <<>>,
              validate |-> FALSE, id |-> 0, selective |-> FALSE, items |-> <<>>]
    /\ reports = <<>>
    /\ ops = 0

InitProcs ==
    /\ lock_file = NoFile
    /\ alive = Procs
    /\ pc = [p \in Procs |-> "idle"]
    /\ lock_pid = [p \in Procs |-> NoFile]
    /\ slept = [p \in Procs |-> 0]
    /\ saves = [p \in Procs |-> 0]
    /\ valid_input = [p \in Procs |-> TRUE]
    /\ temp_ino = NoFile
    /\ live_ino = 1
    /\ content = <<Envelope(OldPayload)>>
    /\ fh = [p \in Procs |-> [ino |-> NoFile, pos |-> 0]]
    /\ live_at_start = [p \in Procs |-> <<>>]
    /\ died_at = [p \in Procs |-> "idle"]
    /\ result = [p \in Procs |-> "none"]
    /\ last_read = Envelope(OldPayload)
    /\ token_writers = {}
    /\ wrote_live = [p \in Procs |-> FALSE]

\* SpecConc: the file backend with automatic backups, as app_enhanced.py
\* constructs the manager
InitConc ==
    /\ InitProcs
    /\ InitStore
    /\ auto_backup = TRUE

(***************************************************************************)
(* save_data, step by step                                                 *)
(***************************************************************************)

\* save_data is called: start_time is taken and acquire_lock entered
save_data_begin(p) ==
    /\ pc[p] = "idle"
    /\ saves[p] < MaxSaves
    /\ \E v \in BOOLEAN : valid_input' = [valid_input EXCEPT ![p] = v]
    /\ saves' = [saves EXCEPT ![p] = @ + 1]
    /\ slept' = [slept EXCEPT ![p] = 0]
    /\ pc' = [pc EXCEPT ![p] = "acq_loop"]
    /\ wrote_live' = [wrote_live EXCEPT ![p] = FALSE]
    /\ UNCHANGED <<lock_file, alive, lock_pid, temp_ino, live_ino, content, fh,
                   live_at_start, died_at, result, last_read, token_writers>>
    /\ UNCHANGED seq_vars

\* while time.time() - start_time < timeout: if not self.lock_file.exists()
acquire_lock_exists(p) ==
    /\ pc[p] = "acq_loop"
    /\ slept[p] < MaxTries
    /\ pc' = [pc EXCEPT ![p] = IF lock_file = NoFile THEN "acq_write" ELSE "acq_read"]
    /\ UNCHANGED <<lock_file, alive, lock_pid, slept, saves, valid_input, temp_ino,
                   live_ino, content, fh, live_at_start, died_at, result, last_read, token_writers, wrote_live>>
    /\ UNCHANGED seq_vars

\* self.lock_file.write_text(str(os.getpid())); return True
acquire_lock_write(p) ==
    /\ pc[p] = "acq_write"
    /\ lock_file' = p
    /\ token_writers' = token_writers \cup {p}
    /\ pc' = [pc EXCEPT ![p] = "validate"]
    /\ UNCHANGED <<alive, lock_pid, slept, saves, valid_input, temp_ino, live_ino,
                   content, fh, live_at_start, died_at, result, last_read, wrote_live>>
    /\ UNCHANGED seq_vars

\* lock_content = self.lock_file.read_text(); a token removed since exists()
\* raises FileNotFoundError, which the outer except answers with a sleep
acquire_lock_read(p) ==
    /\ pc[p] = "acq_read"
    /\ IF lock_file = NoFile
       THEN /\ slept' = [slept EXCEPT ![p] = @ + 1]
            /\ pc' = [pc EXCEPT ![p] = "acq_loop"]
            /\ UNCHANGED lock_pid
       ELSE /\ lock_pid' = [lock_pid EXCEPT ![p] = lock_file]
            /\ pc' = [pc EXCEPT ![p] = "acq_kill"]
            /\ UNCHANGED slept
    /\ UNCHANGED <<lock_file, alive, saves, valid_input, temp_ino, live_ino,
                   content, fh, live_at_start, died_at, result, last_read, token_writers, wrote_live>>
    /\ UNCHANGED seq_vars

\* os.kill(lock_pid, 0): the holder runs -> time.sleep(0.1); OSError -> unlink
acquire_lock_kill(p) ==
    /\ pc[p] = "acq_kill"
    /\ IF lock_pid[p] \in alive
       THEN /\ slept' = [slept EXCEPT ![p] = @ + 1]
            /\ pc' = [pc EXCEPT ![p] = "acq_loop"]
       ELSE /\ pc' = [pc EXCEPT ![p] = "acq_unlink"]
            /\ UNCHANGED slept
    /\ UNCHANGED <<lock_file, alive, lock_pid, saves, valid_input, temp_ino,
                   live_ino, content, fh, live_at_start, died_at, result, last_read, token_writers, wrote_live>>
    /\ UNCHANGED seq_vars

\* an acquire_lock without the continue: it sleeps after removing the token
acquire_lock_unlink_sleeps(p) ==
    /\ pc[p] = "acq_unlink"
    /\ lock_file' = NoFile
    /\ slept' = [slept EXCEPT ![p] = @ + 1]
    /\ pc' = [pc EXCEPT ![p] = "acq_loop"]
    /\ token_writers' = {}
    /\ UNCHANGED <<alive, lock_pid, saves, valid_input, temp_ino, live_ino,
                   content, fh, live_at_start, died_at, result, last_read, wrote_live>>
    /\ UNCHANGED seq_vars

\* self.lock_file.unlink(); continue.  unlink removes whatever token the
\* path names now; with no token it raises and the outer except sleeps
acquire_lock_unlink(p) ==
    /\ pc[p] = "acq_unlink"
    /\ IF lock_file = NoFile
       THEN /\ slept' = [slept EXCEPT ![p] = @ + 1]
            /\ UNCHANGED lock_file
       ELSE /\ lock_file' = NoFile
            /\ UNCHANGED slept
    /\ pc' = [pc EXCEPT ![p] = "acq_loop"]
    /\ token_writers' = {}
    /\ UNCHANGED <<alive, lock_pid, saves, valid_input, temp_ino, live_ino,
                   content, fh, live_at_start, died_at, result, last_read, wrote_live>>
    /\ UNCHANGED seq_vars

\* an acquire_lock that removes the token it waited for when it gives up
acquire_lock_timeout_unlinks(p) ==
    /\ pc[p] = "acq_loop"
    /\ slept[p] >= 1
    /\ lock_file' = NoFile
    /\ token_writers' = {}
    /\ result' = [result EXCEPT ![p] = "lock_timeout"]
    /\ pc' = [pc EXCEPT ![p] = "release"]
    /\ UNCHANGED <<alive, lock_pid, slept, saves, valid_input, temp_ino,
                   live_ino, content, fh, live_at_start, died_at, last_read, wrote_live>>
    /\ UNCHANGED seq_vars

\* the while condition fails after at least one sleep: acquire_lock returns
\* False, save_data returns False, and its finally clause is next
acquire_lock_timeout(p) ==
    /\ pc[p] = "acq_loop"
    /\ slept[p] >= 1
    /\ result' = [result EXCEPT ![p] = "lock_timeout"]
    /\ pc' = [pc EXCEPT ![p] = "release"]
    /\ UNCHANGED <<lock_file, alive, lock_pid, slept, saves, valid_input, temp_ino,
                   live_ino, content, fh, live_at_start, died_at, last_read, token_writers, wrote_live>>
    /\ UNCHANGED seq_vars

\* the validation loop: an invalid record returns False (finally is next);
\* otherwise the records are stamped and _save_to_file is entered
save_data_validate(p) ==
    /\ pc[p] = "validate"
    /\ IF valid_input[p]
       THEN /\ pc' = [pc EXCEPT ![p] = "open"]
            /\ UNCHANGED result
       ELSE /\ pc' = [pc EXCEPT ![p] = "release"]
            /\ result' = [result EXCEPT ![p] = "invalid"]
    /\ UNCHANGED <<lock_file, alive, lock_pid, slept, saves, valid_input, temp_ino,
                   live_ino, content, fh, live_at_start, died_at, last_read, token_writers, wrote_live>>
    /\ UNCHANGED seq_vars

\* open(temp_path, 'w'): creates the file, or truncates the inode the name
\* already has (another writer's unfinished temporary file)
save_to_file_open(p) ==
    /\ pc[p] = "open"
    /\ live_at_start' = [live_at_start EXCEPT ![p] = LiveContent]
    /\ IF temp_ino = NoFile
       THEN /\ content' = Append(content, <<>>)
            /\ temp_ino' = Len(content) + 1
       ELSE /\ content' = [content EXCEPT ![temp_ino] = <<>>]
            /\ UNCHANGED temp_ino
    /\ fh' = [fh EXCEPT ![p] = [ino |-> temp_ino', pos |-> 0]]
    /\ pc' = [pc EXCEPT ![p] = "write"]
    /\ UNCHANGED <<lock_file, alive, lock_pid, slept, saves, valid_input, live_ino,
                   died_at, result, last_read, token_writers, wrote_live>>
    /\ UNCHANGED seq_vars

\* json.dump(..., f): one write() at the file's own offset; the with block
\* closes the file after the last one
save_to_file_write(p) ==
    /\ pc[p] = "write"
    /\ content' = [content EXCEPT ![fh[p].ino] = WriteAt(@, fh[p].pos, <<p, fh[p].pos + 1>>)]
    /\ fh' = [fh EXCEPT ![p].pos = @ + 1]
    /\ pc' = [pc EXCEPT ![p] = IF fh[p].pos + 1 = NChunks THEN "replace" ELSE "write"]
    /\ wrote_live' = [wrote_live EXCEPT ![p] = @ \/ fh[p].ino = live_ino]
    /\ UNCHANGED <<lock_file, alive, lock_pid, slept, saves, valid_input, temp_ino,
                   live_ino, live_at_start, died_at, result, last_read, token_writers>>
    /\ UNCHANGED seq_vars

\* except Exception: if temp_path.exists(): temp_path.unlink(); raise e
\* (save_data's except then returns False)
save_to_file_cleanup(p) ==
    /\ temp_ino' = NoFile
    /\ result' = [result EXCEPT ![p] = "write_failed"]
    /\ pc' = [pc EXCEPT ![p] = "release"]

\* a write() fails (no space left on the device)
save_to_file_write_error(p) ==
    /\ pc[p] = "write"
    /\ save_to_file_cleanup(p)
    /\ UNCHANGED <<lock_file, alive, lock_pid, slept, saves, valid_input, live_ino,
                   content, fh, live_at_start, died_at, last_read, token_writers, wrote_live>>
    /\ UNCHANGED seq_vars

\* temp_path.replace(file_path): tasks.json now names the temporary inode.
\* With the name gone (renamed by another writer) it raises.
save_to_file_replace(p) ==
    /\ pc[p] = "replace"
    /\ IF temp_ino = NoFile
       THEN /\ save_to_file_cleanup(p)
            /\ UNCHANGED live_ino
       ELSE /\ live_ino' = temp_ino
            /\ temp_ino' = NoFile
            /\ result' = [result EXCEPT ![p] = "saved"]
            /\ pc' = [pc EXCEPT ![p] = "release"]
    /\ UNCHANGED <<lock_file, alive, lock_pid, slept, saves, valid_input, content,
                   fh, live_at_start, died_at, last_read, token_writers, wrote_live>>
    /\ UNCHANGED seq_vars

\* a save_data without the finally clause: it returns and the token stays
release_lock_skipped(p) ==
    /\ pc[p] = "release"
    /\ pc' = [pc EXCEPT ![p] = "idle"]
    /\ UNCHANGED <<lock_file, token_writers, alive, lock_pid, slept, saves, valid_input,
                   temp_ino, live_ino, content, fh, live_at_start, died_at, result,
                   last_read, wrote_live>>
    /\ UNCHANGED seq_vars

\* finally: self.release_lock(): the token is unlinked if there is one
release_lock(p) ==
    /\ pc[p] = "release"
    /\ lock_file' = NoFile
    /\ token_writers' = {}
    /\ pc' = [pc EXCEPT ![p] = "idle"]
    /\ UNCHANGED <<alive, lock_pid, slept, saves, valid_input, temp_ino, live_ino,
                   content, fh, live_at_start, died_at, result, last_read, wrote_live>>
    /\ UNCHANGED seq_vars

\* the process is killed inside save_data; nothing of it runs any more
kill_process(p) ==
    /\ pc[p] \notin {"idle", "dead"}
    /\ alive' = alive \ {p}
    /\ died_at' = [died_at EXCEPT ![p] = pc[p]]
    /\ pc' = [pc EXCEPT ![p] = "dead"]
    /\ UNCHANGED <<lock_file, lock_pid, slept, saves, valid_input, temp_ino,
                   live_ino, content, fh, live_at_start, result, last_read, token_writers, wrote_live>>
    /\ UNCHANGED seq_vars

\* _load_from_file, which takes no lock: json.load(f) of tasks.json
load_from_file_read(p) ==
    /\ pc[p] = "idle"
    /\ last_read' = LiveContent
    /\ UNCHANGED <<lock_file, alive, pc, lock_pid, slept, saves, valid_input,
                   temp_ino, live_ino, content, fh, live_at_start, died_at, result, token_writers, wrote_live>>
    /\ UNCHANGED seq_vars

\* cleanup_old_backups(keep_count=20, keep_days=30), file_age.days
KeepCountDefault == 20
KeepDaysDefault == 30
SecondsPerDay == 86400

\* position of archive a in its class sorted by st_mtime, newest first
RankIn(class, a) == Cardinality({b \in class : b.mtime > a.mtime})

\* the elements of a sorted list that the slice [k:] selects
SliceFrom(class, k) ==
    LET start == IF k >= 0 THEN k
                 ELSE IF Cardinality(class) + k > 0 THEN Cardinality(class) + k ELSE 0
    IN {a \in class : RankIn(class, a) >= start}

Max(a, b) == IF a >= b THEN a ELSE b

\* cleanup_old_backups without the test of the age of a manual archive
cleanup_ignoring_age(arch, now, keep_count, keep_days) ==
    IF Cardinality(arch) <= keep_count THEN arch
    ELSE LET manual_backups == {a \in arch : a.complete /\ a.backup_type = "manual"}
             auto_backups == arch \ manual_backups
             manual_keep == Max(5, keep_count \div 2)
         IN arch \ (SliceFrom(auto_backups, keep_count - manual_keep)
                    \cup SliceFrom(manual_backups, manual_keep))

\* an archive that cannot be read is put with the automatic ones
cleanup_old_backups(arch, now, keep_count, keep_days) ==
    IF Cardinality(arch) <= keep_count THEN arch
    ELSE LET manual_backups == {a \in arch : a.complete /\ a.backup_type = "manual"}
             auto_backups == arch \ manual_backups
             manual_keep == Max(5, keep_count \div 2)
             auto_keep == keep_count - manual_keep
             old_auto == SliceFrom(auto_backups, auto_keep)
             old_manual == {a \in SliceFrom(manual_backups, manual_keep) :
                              (now - a.mtime) \div SecondsPerDay > keep_days}
         IN arch \ (old_auto \cup old_manual)

\* optimize_storage, which takes no lock: every *.tmp name in the data
\* directory is unlinked, then the retention cleanup runs
optimize_storage(p) ==
    /\ pc[p] = "idle"
    /\ temp_ino' = NoFile
    /\ archives' = cleanup_old_backups(archives, clock, KeepCountDefault, KeepDaysDefault)
    /\ UNCHANGED <<lock_file, alive, pc, lock_pid, slept, saves, valid_input, live_ino,
                   content, fh, live_at_start, died_at, result, last_read,
                   token_writers, wrote_live>>
    /\ UNCHANGED <<auto_backup, files, token, backup_thread, clock, ret, reports, ops>>

NextConc ==
    \E p \in Procs :
        \/ save_data_begin(p)
        \/ acquire_lock_exists(p)
        \/ acquire_lock_write(p)
        \/ acquire_lock_read(p)
        \/ acquire_lock_kill(p)
        \/ acquire_lock_unlink(p)
        \/ acquire_lock_timeout(p)
        \/ save_data_validate(p)
        \/ save_to_file_open(p)
        \/ save_to_file_write(p)
        \/ save_to_file_write_error(p)
        \/ save_to_file_replace(p)
        \/ release_lock(p)
        \/ kill_process(p)
        \/ load_from_file_read(p)
        \/ optimize_storage(p)

SpecConc == InitConc /\ [][NextConc]_vars

\* the statements of a save_data call that is under way: a process that
\* is running goes on to its next statement
Running(p) ==
    \/ acquire_lock_exists(p)
    \/ acquire_lock_write(p)
    \/ acquire_lock_read(p)
    \/ acquire_lock_kill(p)
    \/ acquire_lock_unlink(p)
    \/ acquire_lock_timeout(p)
    \/ save_data_validate(p)
    \/ save_to_file_open(p)
    \/ save_to_file_write(p)
    \/ save_to_file_write_error(p)
    \/ save_to_file_replace(p)
    \/ release_lock(p)

\* SpecConcFair: SpecConc in which no running process stops for ever
\* (calling save_data, being killed and loading stay the environment's choice)
SpecConcFair == SpecConc /\ \A p \in Procs : WF_vars(Running(p))

(***************************************************************************)
(* Claims on the interleaved save_data                                     *)
(***************************************************************************)

\* C1: lock exclusivity: never have two processes both had acquire_lock
\* return True with neither having called release_lock yet.
C1_LockExclusive == Cardinality({p \in Procs : InSave(p)}) <= 1

\* C2: a step that removes the token is taken by a process that wrote it,
\* or by one that read its pid and found that process dead; so a save_data
\* whose acquire_lock timed out does not remove the live holder's token.
C2_TokenRemovedByCreatorOrReclaimer ==
    [][\A p \in Procs :
          (pc'[p] # pc[p] /\ lock_file # NoFile /\ lock_file' = NoFile)
          => \/ p \in token_writers
             \/ /\ pc[p] = "acq_unlink"
                /\ lock_pid[p] = lock_file
                /\ lock_file \notin alive]_vars

\* C3: every load reads a whole envelope, the previous one or a new one,
\* never a partially written tasks.json.
C3_LoadReadsCompleteEnvelope == IsCompleteEnvelope(last_read)

\* C4: a process killed in _save_to_file after opening the temporary file
\* and before the rename has not changed tasks.json: the live file is what
\* it was before that save.
C4_KilledSaveLeftLiveFile ==
    \A p \in Procs :
        (pc[p] = "dead" /\ died_at[p] \in {"write", "replace"}) => ~wrote_live[p]

\* C10 (file backend): a save_data that failed in the write step (a failed
\* write or a failed rename) has not changed tasks.json.
C10_FailedWriteLeftLiveFile ==
    \A p \in Procs : result[p] = "write_failed" => ~wrote_live[p]

\* C11: a save_data call that acquired the lock and has returned (saved,
\* validation failure, write failure or exception) has left no token of
\* its own behind.
C11_FinishedSaveLeftNoToken ==
    \A p \in Procs :
        (pc[p] = "idle" /\ result[p] \in {"saved", "invalid", "write_failed"})
        => lock_file # p

\* a save that acquired the lock, failed in the write step, and returned
C11_FailedSaveReturned ==
    \E p \in Procs : pc[p] = "idle" /\ result[p] = "write_failed" /\ p \in alive

\* the token x names a process that os.kill(x, 0) does not find
Dead(x) == x # NoFile /\ x \notin alive

\* no other process is inside save_data
Alone(p) == \A q \in Procs \ {p} : pc[q] \in {"idle", "dead"}

\* C12: when acquire_lock of p starts a loop iteration on a token that
\* names a dead process, then, unless another process starts contending,
\* p is killed or the timeout has elapsed, p comes to hold the lock without
\* having slept once more (the token is removed and the next iteration
\* succeeds).
C12_StaleTokenReclaimedInOneCycle ==
    \A p \in Procs : \A n \in 0..MaxTries :
        (pc[p] = "acq_loop" /\ Dead(lock_file) /\ Alone(p) /\ slept[p] = n)
        ~> \/ pc[p] = "validate" /\ lock_file = p /\ slept[p] = n
           \/ ~Alone(p)
           \/ pc[p] = "dead"
           \/ pc[p] = "release" /\ result[p] = "lock_timeout"

\* p holds the lock after having found a dead process's token, with no sleep
C12_ReclaimedAndAcquired ==
    \E p \in Procs :
        /\ pc[p] = "validate" /\ lock_file = p
        /\ Dead(lock_pid[p]) /\ slept[p] = 0 /\ Alone(p)

\* p is inside acquire_lock
InAcquire(p) == pc[p] \in {"acq_loop", "acq_write", "acq_read", "acq_kill", "acq_unlink"}

\* C13: every acquire_lock call ends (it returns, or its process is
\* killed), and when it returns False, which it does only after having
\* slept, the token is as it was: a live holder's token is still in place.
C13_AcquireEndsAndLeavesToken ==
    /\ \A p \in Procs : InAcquire(p) ~> ~InAcquire(p)
    /\ [][\A p \in Procs :
            (InAcquire(p) /\ pc'[p] = "release")
            => /\ result'[p] = "lock_timeout"
               /\ slept[p] >= 1
               /\ lock_file' = lock_file]_vars

\* acquire_lock of p has returned False while a live process holds the lock
C13_TimedOutOnLiveHolder ==
    \E p, q \in Procs :
        /\ pc[p] = "release" /\ result[p] = "lock_timeout"
        /\ q # p /\ lock_file = q /\ q \in alive /\ InSave(q)

\* acquire_lock has returned True to p and p has not left _save_to_file
AcquiredLock(p) == pc[p] \in {"validate", "open", "write", "replace"}

\* C20: a step that creates, replaces or deletes tasks.json or
\* tasks.json.tmp is a step of a process to which acquire_lock has
\* returned True.
C20_DataFilesChangedUnderLock ==
    [][(temp_ino' # temp_ino \/ live_ino' # live_ino)
       => \E p \in Procs : AcquiredLock(p) /\ pc'[p] # pc[p]]_vars

(***************************************************************************)
(* Records                                                                 *)
(*                                                                         *)
(* A record is a dict; a key the dict lacks has the value Absent (0 for    *)
(* version, <<>> for checksum).  A list- or string-valued field is the     *)
(* pair of its Python type and its JSON text.                              *)
(***************************************************************************)
Types == {"tasks", "habits"}
Absent == "<absent>"
IsoDate == "2024-01-01T09:00:00"
\* a created_at that is no string: datetime.fromisoformat raises TypeError
NonStr == "<int>"
NoValue == [t |-> "absent", v |-> ""]
List(text) == [t |-> "list", v |-> text]
Str(text) == [t |-> "str", v |-> text]
\* the texts json.loads parses (to a list)
JsonArrayTexts == {"[]", "[\"home\"]"}

BlankRecord ==
    [id |-> 0, title |-> Absent, name |-> Absent, status |-> Absent,
     frequency |-> Absent, priority |-> Absent, created_at |-> Absent,
     tags |-> NoValue, notes |-> NoValue, updated_at |-> Absent,
     version |-> 0, checksum |-> <<>>]

TaskPool ==
    { [BlankRecord EXCEPT !.id = 1, !.title = "write report", !.status = "pending",
                          !.priority = "high", !.created_at = IsoDate,
                          !.tags = List("[\"home\"]")],
      [BlankRecord EXCEPT !.id = 2, !.title = "call Bob", !.status = "completed",
                          !.priority = "none", !.created_at = IsoDate],
      [BlankRecord EXCEPT !.id = 3, !.title = "buy milk", !.status = "done",
                          !.priority = "low", !.created_at = IsoDate] }

HabitPool ==
    { [BlankRecord EXCEPT !.id = 1, !.name = "run", !.frequency = "daily",
                          !.created_at = IsoDate,
                          !.notes = Str("why it matters")] }

Pool(type) == IF type = "tasks" THEN TaskPool ELSE HabitPool

SeqsUpTo(S, n) == UNION {[1..k -> S] : k \in 0..n}

\* the lists a caller passes to save_data
Inputs(type) == SeqsUpTo(Pool(type), MaxLen)

Concat(ss) ==
    LET RECURSIVE Cat(_)
        Cat(k) == IF k = 0 THEN <<>> ELSE Cat(k - 1) \o ss[k]
    IN Cat(Len(ss))

(***************************************************************************)
(* DataValidator                                                           *)
(***************************************************************************)
valid_statuses == {"pending", "in_progress", "completed", "cancelled"}
valid_priorities == {"none", "low", "medium", "high"}
valid_frequencies == {"daily", "weekly", "monthly", "custom"}

FieldMissing(r, f) ==
    CASE f = "id" -> r.id = 0
      [] f = "title" -> r.title = Absent
      [] f = "name" -> r.name = Absent
      [] f = "status" -> r.status = Absent
      [] f = "frequency" -> r.frequency = Absent
      [] f = "created_at" -> r.created_at = Absent

MissingErrors(r, required) ==
    Concat([i \in 1..Len(required) |->
              IF FieldMissing(r, required[i])
              THEN << <<"Missing required field", required[i]>> >> ELSE <<>>])

\* task.get('status') of a dict without the key is None
GetOrNone(v) == IF v = Absent THEN "None" ELSE v

\* validate_task: the list of errors, in the order the checks run
validate_task_errors(task) ==
    MissingErrors(task, <<"id", "title", "status", "created_at">>)
    \o (IF task.created_at \notin {Absent, IsoDate}
        THEN << <<"Invalid created_at format", "">> >> ELSE <<>>)
    \o (IF task.status \notin valid_statuses
        THEN << <<"Invalid status", GetOrNone(task.status)>> >> ELSE <<>>)
    \o (IF task.priority \notin valid_priorities
        THEN << <<"Invalid priority", GetOrNone(task.priority)>> >> ELSE <<>>)

validate_habit_errors(habit) ==
    MissingErrors(habit, <<"id", "name", "frequency", "created_at">>)
    \o (IF habit.frequency \notin valid_frequencies
        THEN << <<"Invalid frequency", GetOrNone(habit.frequency)>> >> ELSE <<>>)

validate_errors(type, r) ==
    IF type = "tasks" THEN validate_task_errors(r) ELSE validate_habit_errors(r)

\* datetime.fromisoformat(task['created_at']) of a non-string raises
\* TypeError, which validate_task does not catch
validate_raises(type, r) == type = "tasks" /\ r.created_at = NonStr

(***************************************************************************)
(* Checksums and serialization                                             *)
(***************************************************************************)

\* sha256 of the canonical text of the data: equal data, equal digest;
\* different data, different digest.  <<>> is "no checksum".
calculate_checksum(data) == <<data>>

\* _prepare_for_json: lists under the four list keys become their JSON text
prepare_for_json(item) ==
    [item EXCEPT !.tags = IF @.t = "list" THEN Str(@.v) ELSE @]

\* json.loads of a string field; a text that is no JSON gives []
LoadsOrEmpty(x) ==
    IF x.t # "str" THEN x
    ELSE IF x.v \in JsonArrayTexts THEN List(x.v) ELSE List("[]")

\* _process_loaded_item: string values under the list fields are parsed
process_loaded_item(item) ==
    [item EXCEPT !.tags = LoadsOrEmpty(@), !.notes = LoadsOrEmpty(@)]

\* a stamping loop that leaves the version as it finds it
stamp_item_keeping_version(item) ==
    LET with_updated == IF item.updated_at = Absent
                        THEN [item EXCEPT !.updated_at = "now"] ELSE item
    IN [with_updated EXCEPT !.checksum = calculate_checksum(with_updated)]

\* save_data's stamping loop body: updated_at if missing, then the checksum
\* of the item as it is at that moment, then the version
stamp_item(item) ==
    LET with_updated == IF item.updated_at = Absent
                        THEN [item EXCEPT !.updated_at = "now"] ELSE item
        with_checksum == [with_updated EXCEPT !.checksum = calculate_checksum(with_updated)]
    IN [with_checksum EXCEPT !.version = (IF @ = 0 THEN 1 ELSE @) + 1]

Map(Op(_), s) == [i \in 1..Len(s) |-> Op(s[i])]

(***************************************************************************)
(* Files of the data directory                                             *)
(***************************************************************************)
NoSuchFile == [kind |-> "absent", checksum |-> <<>>, data |-> <<>>]
CorruptFile == [kind |-> "corrupt", checksum |-> <<>>, data |-> <<>>]

Msg(level, what, type, errors) ==
    [level |-> level, what |-> what, type |-> type, errors |-> errors]

\* _save_to_file: the envelope that the rename makes live
save_to_file(data) ==
    LET serializable_data == Map(prepare_for_json, data)
    IN [kind |-> "envelope",
        checksum |-> calculate_checksum(serializable_data),
        data |-> serializable_data]

\* a _load_from_file that recomputes the checksum over the processed items
load_from_file_processed_first(type, f) ==
    CASE f.kind = "absent" -> [data |-> <<>>, msgs |-> <<>>]
      [] f.kind = "corrupt" ->
            [data |-> <<>>, msgs |-> <<Msg("error", "Error loading", type, <<>>)>>]
      [] OTHER ->
            [data |-> Map(process_loaded_item, f.data),
             msgs |-> IF calculate_checksum(Map(process_loaded_item, f.data)) # f.checksum
                      THEN <<Msg("warning", "Data integrity check failed", type, <<>>)>>
                      ELSE <<>>]

\* _load_from_file: [data, msgs]; every exception ends in st.error and []
load_from_file(type, f) ==
    CASE f.kind = "absent" -> [data |-> <<>>, msgs |-> <<>>]
      [] f.kind = "corrupt" ->
            [data |-> <<>>, msgs |-> <<Msg("error", "Error loading", type, <<>>)>>]
      [] OTHER ->
            [data |-> Map(process_loaded_item, f.data),
             msgs |-> IF calculate_checksum(f.data) # f.checksum
                      THEN <<Msg("warning", "Data integrity check failed", type, <<>>)>>
                      ELSE <<>>]

(***************************************************************************)
(* Backup archives                                                         *)
(***************************************************************************)
MinBackupInterval == 3600

ArchiveIds(arch) == {a.id : a \in arch}
ArchiveAt(arch, id) == CHOOSE a \in arch : a.id = id

\* zipfile.ZipFile(backup_path, 'w'): the file of that name is replaced
WriteArchive(arch, a) == {x \in arch : x.id # a.id} \cup {a}

\* max(backup_files, key=st_mtime)
LatestArchive(arch) == CHOOSE a \in arch : \A b \in arch : b.mtime <= a.mtime

\* the dict that create_backup hashes: the collections and, under
\* 'metadata', id, timestamp, version, description and backup_type
BackupPayload(metadata, tasks, habits) ==
    [metadata |-> metadata, tasks |-> tasks, habits |-> habits]

\* the archive create_backup writes: the checksum is taken over the
\* collections together with the metadata
backup_archive(now, description, backup_type, tasks, habits) ==
    [id |-> now, mtime |-> now, backup_type |-> backup_type,
     description |-> description,
     checksum |-> calculate_checksum(BackupPayload(
                      <<[id |-> now, description |-> description,
                         backup_type |-> backup_type]>>, tasks, habits)),
     tasks |-> tasks, habits |-> habits, complete |-> TRUE]

\* what zipfile.ZipFile(backup_path, 'w') leaves under the archive's name
\* when the writing stops midway: a file that no zipfile.ZipFile reads
partial_archive(now) ==
    [id |-> now, mtime |-> now, backup_type |-> "", description |-> "",
     checksum |-> <<>>, tasks |-> <<>>, habits |-> <<>>, complete |-> FALSE]

\* how the writing of the zip file goes: it succeeds, it raises before the
\* file exists, or it stops after the file has been created
ZipOutcomes == {"ok", "no_file", "partial"}

\* create_backup's except branch: st.error("Backup creation failed: ...")
backup_failed(zip_io) ==
    IF zip_io = "ok" THEN <<>>
    ELSE <<Msg("error", "Backup creation failed", "", <<>>)>>

\* create_backup: both collections are read without validation, hashed
\* together with the metadata, written under the name of the current
\* second, and the retention cleanup runs.  An exception skips the
\* cleanup and gives None.
create_backup(fs, arch, now, description, backup_type, zip_io) ==
    CASE zip_io = "no_file" -> arch
      [] zip_io = "partial" -> WriteArchive(arch, partial_archive(now))
      [] OTHER ->
           cleanup_old_backups(
               WriteArchive(arch, backup_archive(now, description, backup_type,
                                                 load_from_file("tasks", fs["tasks"]).data,
                                                 load_from_file("habits", fs["habits"]).data)),
               now, KeepCountDefault, KeepDaysDefault)

\* _recover_from_backup: the collection of the newest archive
recover_from_backup(arch, type) ==
    IF arch = {} THEN [data |-> <<>>, msgs |-> <<>>]
    ELSE IF ~LatestArchive(arch).complete
    THEN [data |-> <<>>, msgs |-> <<Msg("error", "Recovery from backup failed", type, <<>>)>>]
    ELSE [data |-> IF type = "tasks" THEN LatestArchive(arch).tasks
                   ELSE LatestArchive(arch).habits,
          msgs |-> <<Msg("success", "Recovered from backup", type, <<>>)>>]

(***************************************************************************)
(* load_data and save_data, run to completion                              *)
(***************************************************************************)
IsValid(type, r) == validate_errors(type, r) = <<>>

\* the except branch of load_data: the validator has raised
load_data_failed(loaded, recovered, ab, type) ==
    IF ab
    THEN [data |-> recovered.data,
          msgs |-> loaded.msgs \o <<Msg("error", "Load failed", type, <<>>)>>
                   \o recovered.msgs]
    ELSE [data |-> <<>>,
          msgs |-> loaded.msgs \o <<Msg("error", "Load failed", type, <<>>)>>]

\* load_data after the backend has returned `loaded` = [data, msgs]
load_data_validate(loaded, arch, ab, type, validate) ==
    IF ~(validate /\ loaded.data # <<>>) THEN loaded
    ELSE IF \E i \in 1..Len(loaded.data) : validate_raises(type, loaded.data[i])
    THEN load_data_failed(loaded, recover_from_backup(arch, type), ab, type)
    ELSE [data |-> SelectSeq(loaded.data, LAMBDA r : IsValid(type, r)),
          msgs |-> loaded.msgs \o
                   Concat([i \in 1..Len(loaded.data) |->
                       IF IsValid(type, loaded.data[i]) THEN <<>>
                       ELSE <<Msg("warning", "Skipped invalid", type,
                                  validate_errors(type, loaded.data[i]))>>])]

load_data(fs, arch, ab, type, validate) ==
    load_data_validate(load_from_file(type, fs[type]), arch, ab, type, validate)

\* the report of record r, the first one that does not pass
violation_report(type, r) ==
    IF validate_raises(type, r)
    THEN <<Msg("error", "Save failed", type, <<>>)>>
    ELSE <<Msg("error", "validation failed", type, validate_errors(type, r))>>

\* the first of the positions `bad` (<<>> if there is none)
first_violation(type, data, bad) ==
    IF bad = {} THEN <<>>
    ELSE violation_report(type, data[CHOOSE i \in bad : \A j \in bad : i <= j])

\* the validation loop of save_data: the report of the first record that
\* does not pass (or on which the validator raises); <<>> if all pass
save_data_validation(type, data) ==
    first_violation(type, data,
                    {i \in 1..Len(data) :
                        validate_raises(type, data[i]) \/ ~IsValid(type, data[i])})

\* create_auto_backup: a thread is started unless one is alive (started,
\* or writing its archive)
create_auto_backup(thread) == IF thread = "none" THEN "alive" ELSE thread

\* save_data after the stamping loop: the write, and what follows it
save_data_write(released, ab, type, stamped, io_ok) ==
    IF ~io_ok
    THEN [w |-> released, ok |-> FALSE, data |-> stamped,
          msgs |-> <<Msg("error", "Save failed", type, <<>>)>>]
    ELSE [w |-> [released EXCEPT
                   !.files[type] = save_to_file(stamped),
                   !.backup_thread = IF ab /\ Len(stamped) > 0
                                     THEN create_auto_backup(@) ELSE @],
          ok |-> TRUE, data |-> stamped, msgs |-> <<>>]

\* save_data after the validation loop has given `violations`
save_data_stamp(released, ab, type, data, violations, io_ok) ==
    IF violations # <<>>
    THEN [w |-> released, ok |-> FALSE, data |-> data, msgs |-> violations]
    ELSE save_data_write(released, ab, type, Map(stamp_item, data), io_ok)

\* save_data on the file backend.  w: [files, token, backup_thread];
\* io_ok: whether the write and the rename succeed.  The result carries the
\* caller's list as the call leaves it.  `released`: the token is removed
\* on every path, by the finally clause.
save_data(w, ab, type, data, validate, io_ok) ==
    IF w.token = "live"
    THEN [w |-> [w EXCEPT !.token = "none"], ok |-> FALSE, data |-> data,
          msgs |-> <<Msg("error", "Could not acquire data lock", type, <<>>)>>]
    ELSE save_data_stamp([w EXCEPT !.token = "none"], ab, type, data,
                         IF validate THEN save_data_validation(type, data) ELSE <<>>,
                         io_ok)

(***************************************************************************)
(* restore_backup                                                          *)
(***************************************************************************)
AllItems == <<"tasks", "habits">>

\* st.warning("Skipped invalid ... during restore") for each record the
\* validator turns down
restore_skipped(item, coll) ==
    Concat([i \in 1..Len(coll) |->
               IF IsValid(item, coll[i]) THEN <<>>
               ELSE <<Msg("warning", "Skipped invalid during restore", item,
                          validate_errors(item, coll[i]))>>])

\* the result of one pass of the loop, given what save_data returned
restore_item_saved(w, item, coll, saved) ==
    IF coll = <<>> THEN [w |-> w, ok |-> TRUE, msgs |-> <<>>]
    ELSE IF \E i \in 1..Len(coll) : validate_raises(item, coll[i])
    THEN [w |-> w, ok |-> FALSE,
          msgs |-> <<Msg("error", "Failed to restore", item, <<>>)>>]
    ELSE [w |-> saved.w, ok |-> TRUE, msgs |-> restore_skipped(item, coll) \o saved.msgs]

\* one pass of restore_backup's loop over items_to_restore, on the
\* collection `coll` of the archive: if it is not empty it is filtered by
\* the validator and passed to save_data, whose result is not looked at
restore_collection(w, ab, item, coll, io_ok) ==
    restore_item_saved(w, item, coll,
        save_data(w, ab, item, SelectSeq(coll, LAMBDA r : IsValid(item, r)),
                  TRUE, io_ok))

restore_item(w, ab, a, item, io_ok) ==
    restore_collection(w, ab, item, IF item = "tasks" THEN a.tasks ELSE a.habits, io_ok)

\* restore_success and the reports after one more pass
restore_next(before, here) ==
    [w |-> here.w, ok |-> before.ok /\ here.ok, msgs |-> before.msgs \o here.msgs]

\* the part of restore_backup after the integrity check: the loop
restore_items_from(w, ab, a, items, io_ok) ==
    LET after[k \in 0..Len(items)] ==
            IF k = 0 THEN [w |-> w, ok |-> TRUE, msgs |-> <<>>]
            ELSE restore_next(after[k - 1],
                              restore_item(after[k - 1].w, ab, a, items[k], io_ok))
    IN after[Len(items)]

\* restore_backup's return after the loop; w1 carries the archives
restore_done(w1, done) ==
    [w |-> [files |-> done.w.files, token |-> done.w.token,
            backup_thread |-> done.w.backup_thread, archives |-> w1.archives],
     ok |-> done.ok, msgs |-> done.msgs]

\* restore_backup from the integrity check on, on the archive a it has read
restore_archive(w1, ab, a, items, io_ok) ==
    IF ~a.complete
    THEN [w |-> w1, ok |-> FALSE, msgs |-> <<Msg("error", "Restore failed", "", <<>>)>>]
    ELSE IF a.checksum # <<>>
       /\ calculate_checksum(BackupPayload(<<>>, a.tasks, a.habits)) # a.checksum
    THEN [w |-> w1, ok |-> FALSE,
          msgs |-> <<Msg("error", "Backup integrity check failed", "", <<>>)>>]
    ELSE restore_done(w1, restore_items_from([files |-> w1.files, token |-> w1.token,
                                              backup_thread |-> w1.backup_thread],
                                             ab, a, items, io_ok))

\* restore_backup after the pre-restore backup has been written
restore_read(w1, ab, id, items, io_ok) ==
    IF id \notin ArchiveIds(w1.archives)
    THEN [w |-> w1, ok |-> FALSE, msgs |-> <<Msg("error", "Restore failed", "", <<>>)>>]
    ELSE restore_archive(w1, ab, ArchiveAt(w1.archives, id), items, io_ok)

\* if not current_backup: st.warning(...), and the restore goes on
restore_warned(r, zip_io) ==
    IF zip_io = "ok" THEN r
    ELSE [r EXCEPT !.msgs = backup_failed(zip_io)
                            \o <<Msg("warning", "Could not create pre-restore backup",
                                     "", <<>>)>> \o @]

\* restore_backup(backup_path, selective, restore_items); w also carries
\* the archives; zip_io: how the writing of the pre-restore backup goes.
\* Result: [w, ok, msgs].
restore_backup(w, ab, now, id, selective, restore_items, io_ok, zip_io) ==
    IF id \notin ArchiveIds(w.archives)
    THEN [w |-> w, ok |-> FALSE,
          msgs |-> <<Msg("error", "Backup file not found", "", <<>>)>>]
    ELSE restore_warned(
             restore_read([w EXCEPT !.archives = create_backup(w.files, w.archives, now,
                                                      "Pre-restore backup", "auto", zip_io)],
                          ab, id,
                          IF selective /\ restore_items # <<>> THEN restore_items
                          ELSE AllItems,
                          io_ok),
             zip_io)

(***************************************************************************)
(* Spec: the operations of one manager                                     *)
(***************************************************************************)
NoRet == [op |-> "none", type |-> "", ok |-> TRUE, data |-> <<>>, input |-> <<>>,
          validate |-> FALSE, id |-> 0, selective |-> FALSE, items |-> <<>>]

World == [files |-> files, token |-> token, backup_thread |-> backup_thread]

Ticks(t) == (t \div MinBackupInterval) + (t % MinBackupInterval)

\* the store and the caller's view after a call that returned r
Returned(r, op, type, input, validate, id) ==
    /\ files' = r.w.files
    /\ token' = r.w.token
    /\ backup_thread' = r.w.backup_thread
    /\ reports' = r.msgs
    /\ ret' = [NoRet EXCEPT !.op = op, !.type = type, !.ok = r.ok, !.data = r.data,
                            !.input = input, !.validate = validate, !.id = id]

Restored(r, id, selective, restore_items) ==
    /\ files' = r.w.files
    /\ token' = r.w.token
    /\ backup_thread' = r.w.backup_thread
    /\ archives' = r.w.archives
    /\ reports' = r.msgs
    /\ ret' = [NoRet EXCEPT !.op = "restore", !.ok = r.ok, !.id = id,
                            !.selective = selective, !.items = restore_items]

Loaded(r, type, validate) ==
    /\ reports' = r.msgs
    /\ ret' = [NoRet EXCEPT !.op = "load", !.type = type, !.data = r.data,
                            !.validate = validate]

Init ==
    /\ InitProcs
    /\ InitStore
    /\ auto_backup \in BOOLEAN

\* save_data(data_type, data, validate) called with a list of the caller's
SaveData ==
    /\ ops < MaxOps
    /\ \E type \in Types, validate \in BOOLEAN, io_ok \in BOOLEAN :
       \E data \in Inputs(type) :
         Returned(save_data(World, auto_backup, type, data, validate, io_ok),
                  "save", type, data, validate, 0)
    /\ ops' = ops + 1
    /\ UNCHANGED <<auto_backup, archives, clock, conc_vars>>

\* the caller saves again the list that the last call handed back (the
\* records load_data returned, or the ones save_data has stamped)
SaveAgain ==
    /\ ops < MaxOps
    /\ ret.op \in {"load", "save"}
    /\ ret.data # <<>>
    /\ \E validate \in BOOLEAN :
         Returned(save_data(World, auto_backup, ret.type, ret.data, validate, TRUE),
                  "save", ret.type, ret.data, validate, 0)
    /\ ops' = ops + 1
    /\ UNCHANGED <<auto_backup, archives, clock, conc_vars>>

LoadData ==
    /\ ops < MaxOps
    /\ \E type \in Types, validate \in BOOLEAN :
         Loaded(load_data(files, archives, auto_backup, type, validate), type, validate)
    /\ ops' = ops + 1
    /\ UNCHANGED <<auto_backup, files, token, archives, backup_thread, clock, conc_vars>>

\* create_backup(description) called by the user: backup_type "manual"
CreateBackup ==
    /\ ops < MaxOps
    /\ \E zip_io \in ZipOutcomes :
         /\ archives' = create_backup(files, archives, clock, "", "manual", zip_io)
         /\ ret' = [NoRet EXCEPT !.op = "backup", !.id = clock, !.ok = (zip_io = "ok")]
         /\ reports' = backup_failed(zip_io)
    /\ ops' = ops + 1
    /\ UNCHANGED <<auto_backup, files, token, backup_thread, clock, conc_vars>>

\* backup_worker: nothing is written when the newest file of the backup
\* directory (_get_last_backup_time) is less than an hour old.  Result:
\* the archives and the reports the thread leaves.
backup_worker(fs, arch, now, msgs, zip_io) ==
    IF arch # {} /\ now - LatestArchive(arch).mtime < MinBackupInterval
    THEN [archives |-> arch, msgs |-> msgs]
    ELSE [archives |-> create_backup(fs, arch, now, "Automatic backup", "auto", zip_io),
          msgs |-> IF zip_io = "ok" THEN msgs ELSE backup_failed(zip_io)]

WorkerDone(r) ==
    /\ archives' = r.archives
    /\ reports' = r.msgs

\* backup_worker, the thread create_auto_backup started
BackupWorker ==
    /\ backup_thread = "alive"
    /\ backup_thread' = "none"
    /\ \E zip_io \in ZipOutcomes :
         WorkerDone(backup_worker(files, archives, clock, reports, zip_io))
    /\ UNCHANGED <<auto_backup, files, token, clock, ret, ops, conc_vars>>

\* the restore_items lists a caller passes
RestoreItemLists == {<<>>, <<"tasks">>, <<"habits">>, <<"tasks", "habits">>}

RestoreBackup ==
    /\ ops < MaxOps
    /\ archives # {}
    /\ \E id \in ArchiveIds(archives), selective \in BOOLEAN, io_ok \in BOOLEAN :
       \E restore_items \in RestoreItemLists, zip_io \in ZipOutcomes :
         Restored(restore_backup([files |-> files, token |-> token,
                                  backup_thread |-> backup_thread,
                                  archives |-> archives],
                                 auto_backup, clock, id, selective, restore_items, io_ok,
                                 zip_io),
                  id, selective, restore_items)
    /\ ops' = ops + 1
    /\ UNCHANGED <<auto_backup, clock, conc_vars>>

\* time passes: a second, or the minimum interval between automatic backups
Tick ==
    /\ \E d \in {1, MinBackupInterval} :
         /\ Ticks(clock + d) <= MaxTicks
         /\ clock' = clock + d
    /\ UNCHANGED <<auto_backup, files, token, archives, backup_thread, ret, reports,
                   ops, conc_vars>>

\* the live file of a type is damaged on disk: json.load no longer parses it
CorruptLiveFile ==
    /\ \E type \in Types :
         /\ files[type].kind = "envelope"
         /\ files' = [files EXCEPT ![type] = CorruptFile]
    /\ UNCHANGED <<auto_backup, token, archives, backup_thread, clock, ret, reports,
                   ops, conc_vars>>

\* an archive's payload is changed on disk (a record of its task list is
\* lost); the metadata inside keeps the checksum written at creation
TamperArchive ==
    /\ \E a \in archives :
         /\ a.complete
         /\ a.tasks # <<>>
         /\ a.description # "tampered"
         /\ archives' = WriteArchive(archives, [a EXCEPT !.tasks = Tail(@),
                                                         !.description = "tampered"])
    /\ UNCHANGED <<auto_backup, files, token, backup_thread, clock, ret, reports,
                   ops, conc_vars>>

\* another process takes the lock, gives it back, or dies holding it
OtherProcess ==
    /\ \E t \in {"none", "live", "stale"} :
         /\ \/ token = "none" /\ t = "live"
            \/ token = "live" /\ t \in {"none", "stale"}
         /\ token' = t
    /\ UNCHANGED <<auto_backup, files, archives, backup_thread, clock, ret, reports,
                   ops, conc_vars>>

\* Spec: the entity store of one manager (save, load, a damaged live file,
\* the token of another process)
Next ==
    \/ SaveData
    \/ SaveAgain
    \/ LoadData
    \/ CorruptLiveFile
    \/ OtherProcess

Spec == Init /\ [][Next]_vars

\* the store and the session after auto_save_data's last save_data returned r
AutoSaved(r, habits) ==
    /\ files = r.w.files
    /\ token = r.w.token
    /\ backup_thread = r.w.backup_thread
    /\ reports = r.msgs
    /\ ret = [NoRet EXCEPT !.op = "save", !.type = "habits", !.ok = r.ok,
                           !.data = r.data, !.input = habits, !.validate = TRUE]

\* auto_save_data() has run once on a fresh installation: the session's
\* task list and its one habit have each been saved (one operation of the
\* session)
InitBackup ==
    /\ InitProcs
    /\ auto_backup \in BOOLEAN
    /\ \E tasks \in {t \in Inputs("tasks") : Len(t) <= 1},
          habits \in {h \in Inputs("habits") : Len(h) = 1} :
         AutoSaved(save_data(
                       save_data([files |-> [type \in Types |-> NoSuchFile],
                                  token |-> "none", backup_thread |-> "none"],
                                 auto_backup, "tasks", tasks, TRUE, TRUE).w,
                       auto_backup, "habits", habits, TRUE, TRUE),
                   habits)
    /\ archives = {}
    /\ clock = 0
    /\ ops = 1

\* SpecBackup: the backup manager of one manager on a populated store
NextBackup ==
    \/ CreateBackup
    \/ BackupWorker
    \/ RestoreBackup
    \/ LoadData
    \/ CorruptLiveFile
    \/ TamperArchive
    \/ Tick

SpecBackup == InitBackup /\ [][NextBackup]_vars

\* a task record whose created_at is a JSON number: datetime.fromisoformat
\* raises TypeError on it, which validate_task does not catch
UntypedTask ==
    [BlankRecord EXCEPT !.id = 4, !.title = "pay rent", !.status = "pending",
                        !.priority = "low", !.created_at = NonStr]

\* the collections of an archive handed to restore_backup
ArchivedTasks == SeqsUpTo(TaskPool \cup {UntypedTask}, MaxLen)
ArchivedHabits == Inputs("habits")

\* an archive whose metadata carries no checksum: metadata.get('checksum')
\* is None and restore_backup skips the integrity check
plain_archive(id, tasks, habits) ==
    [id |-> id, mtime |-> id, backup_type |-> "manual", description |-> "",
     checksum |-> <<>>, tasks |-> tasks, habits |-> habits, complete |-> TRUE]

\* auto_save_data() has run once, and the backup directory holds one
\* archive without a checksum, written a second ago
InitRestore ==
    /\ InitProcs
    /\ auto_backup \in BOOLEAN
    /\ \E tasks \in {t \in Inputs("tasks") : Len(t) = 1},
          habits \in {h \in Inputs("habits") : Len(h) = 1} :
         AutoSaved(save_data(
                       save_data([files |-> [type \in Types |-> NoSuchFile],
                                  token |-> "none", backup_thread |-> "none"],
                                 auto_backup, "tasks", tasks, TRUE, TRUE).w,
                       auto_backup, "habits", habits, TRUE, TRUE),
                   habits)
    /\ \E tasks \in ArchivedTasks, habits \in ArchivedHabits :
         archives = {plain_archive(0, tasks, habits)}
    /\ clock = 1
    /\ ops = MaxOps - 1

\* SpecRestore: restore_backup on an archive that passes the integrity check
NextRestore ==
    \/ RestoreBackup
    \/ BackupWorker
    \/ Tick

SpecRestore == InitRestore /\ [][NextRestore]_vars

\* the moment cleanup_old_backups is called at in SpecRetention
RetentionNow == (2 * KeepDaysDefault) * SecondsPerDay

\* n archives of one type, a day apart, the newest `youngest` days old;
\* `shift` keeps the names of the types apart
archives_aged(n, youngest, shift, description, backup_type) ==
    {backup_archive(RetentionNow - (youngest + i) * SecondsPerDay - shift,
                    description, backup_type, <<>>, <<>>) : i \in 0..(n - 1)}

\* a zip file that cannot be read, written a second before now
unreadable_archives(present) ==
    IF present THEN {partial_archive(RetentionNow - 1)} ELSE {}

\* the backup directories with up to n manual and n automatic archives of
\* the last KeepDaysDefault days, up to n older ones of each type, and
\* with or without an unreadable file
BackupDirectories(n) ==
    {archives_aged(my, 0, 1, "", "manual")
     \cup archives_aged(mo, KeepDaysDefault + 1, 1, "", "manual")
     \cup archives_aged(ay, 0, 2, "Automatic backup", "auto")
     \cup archives_aged(ao, KeepDaysDefault + 1, 2, "Automatic backup", "auto")
     \cup unreadable_archives(unreadable) :
        my \in 0..n, mo \in 0..n, ay \in 0..n, ao \in 0..n, unreadable \in BOOLEAN}

\* a populated backup directory at the moment of the cleanup
InitRetention ==
    /\ InitProcs
    /\ auto_backup = TRUE
    /\ files = [type \in Types |-> NoSuchFile]
    /\ token = "none"
    /\ backup_thread = "none"
    /\ clock = RetentionNow
    /\ ret = NoRet
    /\ reports = <<>>
    /\ ops = 0
    /\ archives \in BackupDirectories(MaxPerAge)

\* cleanup_old_backups() with its default arguments; ret.id is the number
\* of files the glob found
CleanupOldBackups ==
    /\ ret.op # "cleanup"
    /\ archives' = cleanup_old_backups(archives, clock, KeepCountDefault, KeepDaysDefault)
    /\ ret' = [NoRet EXCEPT !.op = "cleanup", !.id = Cardinality(archives)]
    /\ UNCHANGED <<auto_backup, files, token, backup_thread, clock, reports, ops,
                   conc_vars>>

\* SpecRetention: the retention cleanup on a populated backup directory
NextRetention == CleanupOldBackups

SpecRetention == InitRetention /\ [][NextRetention]_vars

\* a smaller backup directory, for the calls with other arguments
InitRetentionAny ==
    /\ InitProcs
    /\ auto_backup = TRUE
    /\ files = [type \in Types |-> NoSuchFile]
    /\ token = "none"
    /\ backup_thread = "none"
    /\ clock = RetentionNow
    /\ ret = NoRet
    /\ reports = <<>>
    /\ ops = 0
    /\ archives \in BackupDirectories(MaxFew)

\* cleanup_old_backups(keep_count, keep_days) with arguments of the
\* caller's; ret.id is keep_count
CleanupWith ==
    /\ ret.op # "cleanup"
    /\ \E keep_count \in 0..MaxKeepCount, keep_days \in {0, KeepDaysDefault} :
         /\ archives' = cleanup_old_backups(archives, clock, keep_count, keep_days)
         /\ ret' = [NoRet EXCEPT !.op = "cleanup", !.id = keep_count]
    /\ UNCHANGED <<auto_backup, files, token, backup_thread, clock, reports, ops,
                   conc_vars>>

\* SpecRetentionAny: the retention cleanup with any arguments
NextRetentionAny == CleanupWith

SpecRetentionAny == InitRetentionAny /\ [][NextRetentionAny]_vars

\* the task lists a caller passes with validate=False: the validator is
\* not run and records of any shape are stored
StoredTasks == SeqsUpTo(TaskPool \cup {UntypedTask}, MaxLen)

\* save_data('tasks', tasks, validate=False) and save_data('habits',
\* habits) have run on a fresh installation
InitLoad ==
    /\ InitProcs
    /\ auto_backup \in BOOLEAN
    /\ \E tasks \in StoredTasks, habits \in {h \in Inputs("habits") : Len(h) = 1} :
         AutoSaved(save_data(
                       save_data([files |-> [type \in Types |-> NoSuchFile],
                                  token |-> "none", backup_thread |-> "none"],
                                 auto_backup, "tasks", tasks, FALSE, TRUE).w,
                       auto_backup, "habits", habits, TRUE, TRUE),
                   habits)
    /\ archives = {}
    /\ clock = 0
    /\ ops = MaxOps - 2

\* a byte of a stored record is changed on disk: the file still parses, the
\* checksum in its metadata is the one written by the save
TamperLiveFile ==
    /\ \E type \in Types :
         /\ files[type].kind = "envelope"
         /\ files[type].data # <<>>
         /\ files[type].data[1].updated_at # "edited"
         /\ files' = [files EXCEPT ![type].data[1].updated_at = "edited"]
    /\ UNCHANGED <<auto_backup, token, archives, backup_thread, clock, ret, reports,
                   ops, conc_vars>>

\* SpecLoad: load_data on a populated store
NextLoad ==
    \/ LoadData
    \/ CreateBackup
    \/ TamperLiveFile

SpecLoad == InitLoad /\ [][NextLoad]_vars

\* the zip file the backup worker has opened and not yet closed: it holds
\* the collections read before the opening, and no reader can read it
open_archive(now, tasks, habits) ==
    [backup_archive(now, "Automatic backup", "auto", tasks, habits)
        EXCEPT !.complete = FALSE]

\* the worker's thread up to zipfile.ZipFile(backup_path, 'w'): it ends at
\* once when the newest file is less than an hour old
BackupWorkerOpens ==
    /\ backup_thread = "alive"
    /\ IF archives # {} /\ clock - LatestArchive(archives).mtime < MinBackupInterval
       THEN /\ backup_thread' = "none"
            /\ UNCHANGED archives
       ELSE /\ backup_thread' = "writing"
            /\ archives' = WriteArchive(archives,
                               open_archive(clock,
                                            load_from_file("tasks", files["tasks"]).data,
                                            load_from_file("habits", files["habits"]).data))
    /\ UNCHANGED <<auto_backup, files, token, clock, ret, reports, ops, conc_vars>>

\* the archive on which the worker's writing ends: the file it has opened
closed_archive(a, now) == [a EXCEPT !.complete = TRUE, !.mtime = now]

\* the worker's thread from the end of the with block on: the zip file is
\* closed, the retention cleanup runs, the thread ends
BackupWorkerCloses ==
    /\ backup_thread = "writing"
    /\ backup_thread' = "none"
    /\ archives' = cleanup_old_backups(
                       {IF a.complete \/ a.description # "Automatic backup"
                        THEN a ELSE closed_archive(a, clock) : a \in archives},
                       clock, KeepCountDefault, KeepDaysDefault)
    /\ UNCHANGED <<auto_backup, files, token, clock, ret, reports, ops, conc_vars>>

\* SpecWorker: the backup worker's thread beside the operations of the
\* main thread
NextWorker ==
    \/ BackupWorkerOpens
    \/ BackupWorkerCloses
    \/ CreateBackup
    \/ RestoreBackup
    \/ SaveAgain
    \/ Tick

SpecWorker == InitBackup /\ [][NextWorker]_vars

(***************************************************************************)
(* Properties of the entity store and the backup manager                   *)
(***************************************************************************)

\* C5: when the live file of a type is corrupt, an archive exists and
\* recovery is enabled, load_data of that type returns the collection of
\* that type held by the most recently created archive.
C5_CorruptLoadRecovers ==
    [][(/\ ops' = ops + 1 /\ ret'.op = "load"
        /\ auto_backup
        /\ files[ret'.type].kind = "corrupt"
        /\ archives # {})
       => ret'.data = recover_from_backup(archives, ret'.type).data]_vars

\* C6: restore_backup accepts every archive that create_backup wrote in
\* an earlier second and that nothing has modified since.
C6_UnmodifiedArchiveAccepted ==
    [][(/\ ops' = ops + 1 /\ ret'.op = "restore"
        /\ ret'.id \in ArchiveIds(archives)
        /\ ret'.id < clock
        /\ ArchiveAt(archives, ret'.id).description # "tampered")
       => ret'.ok]_vars

\* C7: every record that save_data wrote and load_data read back carries
\* the checksum of itself without the checksum field (stored version
\* included).
C7_ChecksumCoversStoredRecord ==
    ret.op = "load" =>
        \A i \in 1..Len(ret.data) :
            ret.data[i].checksum
                = calculate_checksum([ret.data[i] EXCEPT !.checksum = <<>>])

\* the fields of a record that save_data does not add
Unstamped(r) == [r EXCEPT !.version = 0, !.checksum = <<>>, !.updated_at = Absent]

\* C8: a load_data that follows a successful save_data of valid records R
\* of the same type returns R, in order, up to the fields the save added.
C8_LoadReturnsWhatWasSaved ==
    [][(/\ ret.op = "save" /\ ret.ok
        /\ \A i \in 1..Len(ret.input) : IsValid(ret.type, ret.input[i])
        /\ ret'.op = "load" /\ ret'.type = ret.type
        /\ files' = files /\ files[ret.type].kind = "envelope")
       => Map(Unstamped, ret'.data) = Map(Unstamped, ret.input)]_vars

\* the one record of a batch whose status is not a valid status
BadStatus(data) == {i \in 1..Len(data) : data[i].status \notin valid_statuses}

\* the text of a report mentions the id or the title of record r
NamesRecord(m, r) ==
    \E i \in 1..Len(m.errors) :
        m.errors[i][2] = r.title \/ m.errors[i][2] = ToString(r.id)

\* C9: save_data with validate on a batch of tasks in which exactly one
\* record has an invalid status (and the lock is free) fails, leaves the
\* stored collection as it was, and makes exactly one report, which names
\* that record.
C9_SaveRejectsAndNamesRecord ==
    [][(/\ ops' = ops + 1 /\ ret'.op = "save" /\ ret'.type = "tasks"
        /\ ret'.validate /\ token # "live"
        /\ Cardinality(BadStatus(ret'.input)) = 1)
       => /\ ~ret'.ok
          /\ files' = files
          /\ Len(reports') = 1
          /\ NamesRecord(reports'[1],
                         ret'.input[CHOOSE i \in BadStatus(ret'.input) : TRUE])]_vars

\* what holds of that save: it fails, nothing is written, and there is one
\* report, of the rule and the offending value
SaveRejectsBatch ==
    [][(/\ ops' = ops + 1 /\ ret'.op = "save" /\ ret'.type = "tasks"
        /\ ret'.validate /\ token # "live"
        /\ Cardinality(BadStatus(ret'.input)) = 1)
       => /\ ~ret'.ok
          /\ files' = files
          /\ Len(reports') = 1
          /\ reports'[1].errors
               = << <<"Invalid status",
                      ret'.input[CHOOSE i \in BadStatus(ret'.input) : TRUE].status>> >>]_vars

\* a save_data that returns False has left both live files as they were
FailedSaveKeepsFiles ==
    [][(ops' = ops + 1 /\ ret'.op = "save" /\ ~ret'.ok) => files' = files]_vars

\* the collection the live file of a type holds, as a reader gets it
Live(fs, type) == load_from_file(type, fs[type]).data

\* a step of restore_backup
RestoreStep == ret'.op = "restore" /\ ops' = ops + 1

\* C14: whenever restore_backup modifies a live collection, the backup
\* directory then holds a complete automatic "Pre-restore backup" archive
\* of this second with the collections the live files held before
C14_PreRestoreBackupWritten ==
    [][(RestoreStep /\ files' # files)
       => \E a \in archives' :
              /\ a.complete /\ a.backup_type = "auto"
              /\ a.description = "Pre-restore backup" /\ a.id = clock
              /\ a.tasks = Live(files, "tasks") /\ a.habits = Live(files, "habits")]_vars
\* the archive a step of restore_backup was called on, when it has passed
\* the integrity check: a readable archive without a checksum that the
\* pre-restore backup has not been written over
PassedIntegrityCheck(a) ==
    /\ a.id = ret'.id /\ a.complete /\ a.checksum = <<>>
    /\ a \in archives'

\* no error was reported: each save_data of the restore has succeeded
NoErrorReported(msgs) == \A i \in 1..Len(msgs) : msgs[i].level # "error"

Ids(coll) == [i \in 1..Len(coll) |-> coll[i].id]

Archived(a, type) == IF type = "tasks" THEN a.tasks ELSE a.habits

\* the entity types a restore_backup call names: the listed ones when
\* selective, those present in the archive otherwise
Requested(selective, items) ==
    IF selective THEN {items[i] : i \in 1..Len(items)} ELSE Types

\* C15: a restore_backup on an archive that passes the integrity check,
\* whose saves succeed, replaces the live collection of each requested
\* type by the archive's valid records, and leaves the file of every
\* other type as it was.
C15_RestoreScope ==
    [][\A a \in archives :
         (RestoreStep /\ PassedIntegrityCheck(a) /\ NoErrorReported(reports'))
         => \A type \in Types :
              IF type \in Requested(ret'.selective, ret'.items)
              THEN Ids(Live(files', type))
                   = Ids(SelectSeq(Archived(a, type), LAMBDA r : IsValid(type, r)))
              ELSE files'[type] = files[type]]_vars
\* the validator accepts the record
Passes(type, r) == ~validate_raises(type, r) /\ IsValid(type, r)

\* the items restore_backup's loop goes through
ItemsToRestore(selective, items) ==
    IF selective /\ items # <<>> THEN {items[i] : i \in 1..Len(items)} ELSE Types

\* no save_data of the restore has failed to write or to take the lock
SavesSucceeded(msgs) ==
    \A i \in 1..Len(msgs) : msgs[i].what \notin {"Save failed", "Could not acquire data lock"}

\* C16: when restore_backup restores a type whose archived collection has
\* records the validator does not accept, and the saves succeed, the live
\* collection of the type is afterwards the accepted records of the
\* archive, in archive order.
C16_InvalidRecordsDroppedOneByOne ==
    [][\A a \in archives : \A type \in Types :
         (/\ RestoreStep /\ PassedIntegrityCheck(a) /\ SavesSucceeded(reports')
          /\ type \in ItemsToRestore(ret'.selective, ret'.items)
          /\ \E i \in 1..Len(Archived(a, type)) : ~Passes(type, Archived(a, type)[i]))
         => Ids(Live(files', type))
            = Ids(SelectSeq(Archived(a, type), LAMBDA r : Passes(type, r)))]_vars
\* the archives cleanup_old_backups counts as manual, and the others
ManualArchives(arch) == {a \in arch : a.complete /\ a.backup_type = "manual"}
AutomaticArchives(arch) == arch \ ManualArchives(arch)

C18_VisibleArchivesComplete == \A a \in archives : a.complete
\* a step of create_backup, restore_backup or load_data, or of the
\* backup worker
ManagerStep == ops' = ops + 1 \/ backup_thread' # backup_thread

\* C19: an archive create_backup has written is still in the backup
\* directory, with the same content, after any later operation of the
\* manager (the retention cleanup deletes nothing while the directory
\* holds no more than KeepCountDefault archives).
C19_ArchivesNeverRewritten ==
    [][(ManagerStep /\ Cardinality(archives) < KeepCountDefault)
       => \A a \in archives : a.complete => a \in archives']_vars

\* item.get('version', 1): the version a record carries into save_data
CarriedVersion(r) == IF r.version = 0 THEN 1 ELSE r.version

\* C21: a successful save_data stores each record with the version it
\* carried plus one; when the caller saves what load_data has just
\* returned, each stored version is the loaded one plus one.
C21_VersionIncrementedByOne ==
    [][(ret'.op = "save" /\ ret'.ok /\ ops' = ops + 1)
       => /\ Len(Live(files', ret'.type)) = Len(ret'.input)
          /\ \A i \in 1..Len(ret'.input) :
               /\ Live(files', ret'.type)[i].version = CarriedVersion(ret'.input[i]) + 1
               /\ (ret.op = "load" /\ ret'.input = ret.data)
                  => Live(files', ret'.type)[i].version = ret.data[i].version + 1]_vars

\* a record that came back from the store with version 2 and was saved
\* again with version 3
C21_SavedLoadedSaved ==
    /\ ret.op = "save" /\ ret.ok /\ ret.input # <<>>
    /\ ret.input[1].version = 2
    /\ Live(files, ret.type)[1].version = 3

\* a step of load_data
LoadStep == ret'.op = "load" /\ ops' = ops + 1

\* C22: load_data(type, validate=True) on a readable file returns the
\* stored records the validator accepts, in stored order, and reports no
\* failed load.
C22_LoadSkipsInvalidRecords ==
    [][(LoadStep /\ ret'.validate /\ files[ret'.type].kind = "envelope")
       => /\ ret'.data = SelectSeq(Live(files, ret'.type),
                                   LAMBDA r : Passes(ret'.type, r))
          /\ \A i \in 1..Len(reports') : reports'[i].what # "Load failed"]_vars

\* the reports hold the integrity warning of _load_from_file
IntegrityWarning(msgs) ==
    \E i \in 1..Len(msgs) : msgs[i].what = "Data integrity check failed"

\* TamperLiveFile has changed the file since save_data wrote it
Altered(f) == f.data # <<>> /\ f.data[1].updated_at = "edited"

WorkerStep == backup_thread = "alive" /\ backup_thread' = "none"

\* an automatic archive was written less than the minimum interval ago
RecentAutomatic(arch, now) ==
    \E a \in arch : a.complete /\ a.backup_type = "auto"
                    /\ now - a.mtime < MinBackupInterval

\* C24: the backup worker writes no archive when an automatic archive is
\* less than the minimum interval old, and only then: otherwise it writes
\* one, or reports that the writing has failed.
C24_AutomaticBackupSkippedOnlyAfterAutomatic ==
    [][WorkerStep
       => IF RecentAutomatic(archives, clock)
          THEN archives' = archives
          ELSE archives' # archives
               \/ \E i \in 1..Len(reports') :
                      reports'[i].what = "Backup creation failed"]_vars

\* C25: the stored collection of each entity type holds no two records
\* with the same id.
C25_StoredIdsUnique ==
    \A type \in Types :
        \A i, j \in 1..Len(files[type].data) :
            files[type].data[i].id = files[type].data[j].id => i = j

\* C26: no create_backup of the main thread (the user's, or the
\* pre-restore backup of restore_backup) writes into the backup directory
\* while the backup worker is writing its archive, and a save_data then
\* starts no second worker.
C26_NoArchiveWrittenBesideWorker ==
    [][backup_thread = "writing"
       => /\ (ret'.op \in {"backup", "restore"} /\ ops' = ops + 1)
             => archives' = archives
          /\ backup_thread' \in {"writing", "none"}]_vars

\* C27: a save_data that returns False leaves the records of the caller's
\* list as they were passed in.
C27_FailedSaveLeavesRecords ==
    [][(ret'.op = "save" /\ ops' = ops + 1 /\ ~ret'.ok)
       => ret'.data = ret'.input]_vars

\* C28: when restore_backup returns True, each type it set out to restore
\* (each requested type whose archived collection is not empty) is stored
\* as the archive's accepted records.
C28_RestoreSucceedsOnlyIfPersisted ==
    [][\A a \in archives : \A type \in Types :
         (/\ RestoreStep /\ PassedIntegrityCheck(a) /\ ret'.ok
          /\ type \in ItemsToRestore(ret'.selective, ret'.items)
          /\ Archived(a, type) # <<>>)
         => Ids(Live(files', type))
            = Ids(SelectSeq(Archived(a, type), LAMBDA r : Passes(type, r)))]_vars

\* C29: the archive restore_backup is called on is still in the backup
\* directory, with the content it had at the call, after the pre-restore
\* backup, when restore_backup reads it.
C29_RestoredArchiveSurvivesPreRestoreBackup ==
    [][RestoreStep
       => \A a \in archives : (a.id = ret'.id /\ a.complete) => a \in archives']_vars

\* C30: after cleanup_old_backups(keep_count, keep_days) at most
\* keep_count automatic archives are left, and each automatic archive it
\* has deleted is older than each one it has kept.
C30_RetentionBoundForAnyArguments ==
    [][ret'.op = "cleanup"
       => /\ Cardinality(AutomaticArchives(archives')) <= ret'.id
          /\ \A d \in AutomaticArchives(archives) \ archives' :
               \A k \in AutomaticArchives(archives') : d.mtime < k.mtime]_vars
====
